---- MODULE Spec2Model ----
(***************************************************************************)
(* Model of the heat pump dashboard server (src/app.py): the reactive      *)
(* inputs, the cached calculations (make_weather_request, get_weather,     *)
(* forecast), the two slider effects and the six rendered outputs.         *)
(*                                                                         *)
(* Reactivity.  The session handles one message from the browser at a      *)
(* time and then flushes: every invalidated effect and every invalidated   *)
(* output that is shown runs, in an order the model leaves open.  What an  *)
(* effect sends to the browser (ui.update_slider) is delivered after the   *)
(* flush and comes back as an input change of its own.                     *)
(*                                                                         *)
(* Numbers.  Observations are daily minimum temperatures; the model keeps  *)
(* them as integers or NaN.  A proportion is kept exactly as the pair      *)
(* days_below / rows until Series.round(3) turns it into a whole number of *)
(* thousandths (0.667 is 667).  Thresholds are Python ints.                *)
(*                                                                         *)
(* The weather client, Prophet and plotnine are collaborators outside the  *)
(* repository: what they return is drawn from bounded sets.                *)
(***************************************************************************)
EXTENDS Integers, Sequences, FiniteSets, TLC

VARIABLES
    city,               \* input.city(); "" when the selectize is emptied
    dates,              \* input.dates(): "complete", or "partial" (a date cleared)
    units,              \* input.units()
    temp,               \* the "temp" slider: value, min, max
    temp_range,         \* the "temp_range" slider: value <<low, high>>, min, max
    forecast_years,     \* input.forecast_years(); none when the field is cleared
    forecast_trend,     \* input.forecast_trend()
    roll_week,          \* input.roll_week()
    roll_month,         \* input.roll_month()
    tab,                \* the panel of the navbar that is shown
    events,             \* input changes the user has made in the session
    pending,            \* reactive effects invalidated and not yet run
    msgs,               \* ui.update_slider messages the browser has not applied
    response,           \* cache of make_weather_request
    weather,            \* cache of get_weather: the frame every reader shares
    fc,                 \* cache of forecast
    out_coordinates,    \* rendered outputs; status "none" = invalidated
    out_map,
    out_plot_weather,
    out_table_weather,
    out_plot_forecast,
    out_table_forecast

inputs == <<city, dates, units, temp, temp_range, forecast_years,
            forecast_trend, roll_week, roll_month, tab, events>>

caches == <<response, weather, fc>>

outputs == <<out_coordinates, out_map, out_plot_weather, out_table_weather,
             out_plot_forecast, out_table_forecast>>

vars == <<inputs, pending, msgs, caches, outputs>>

(***************************************************************************)
(* Bounds and program constants                                            *)
(***************************************************************************)
MaxLen == 3             \* longest series the profile is tried on
MaxInFlight == 2        \* most slider messages on their way to the browser
MaxEvents == 3          \* most input changes the user makes in a session
ReqRows == 364          \* req(df.shape[0] > 364)
DaysPerYear == 365      \* periods = forecast_years * 365
Decimals == 3           \* .round(3)

(***************************************************************************)
(* Observations                                                            *)
(***************************************************************************)
Num(v) == [nan |-> FALSE, v |-> v]
NaN == [nan |-> TRUE, v |-> 0]

ObsInts == {9, 10, 11}
ObsVals == {NaN} \cup {Num(v) : v \in ObsInts}
ShortSeries == UNION {[1..n -> ObsVals] : n \in 0..MaxLen}
Thresholds == 9..11

\* what the archive may return for a city and a date range: a single day,
\* one day short of a year, a year
HistLens == {1, ReqRows, ReqRows + 1}
HistBases == {-5}
Hist(n, b) == [i \in 1..n |-> Num(b + 10 * (i % 3))]
Histories == {Hist(n, b) : n \in HistLens, b \in HistBases}

\* what Prophet may predict as the lower bound of the interval
PredBases == {3}
Predictions(periods) == {[i \in 1..periods |-> Num(b - 7 * (i % 2))] : b \in PredBases}

\* input.forecast_years(): a number, or None
Years(k) == [none |-> FALSE, v |-> k]
NoYears == [none |-> TRUE, v |-> 0]

Cities == {"", "Urbana, Illinois"}
DateChoices == {"complete", "partial"}
TempChoices == {-15, 5}
RangeChoices == {<<-20, -10>>, <<0, 15>>}
YearChoices == {Years(1), Years(2), NoYears}
Tabs == {"Historical", "Forecast", "About"}

(***************************************************************************)
(* The threshold sweep of table_weather and table_forecast                 *)
(***************************************************************************)
\* IEEE comparison of a float with an int: NaN < t is False
LtFlipped(x, t) == ~x.nan /\ x.v > t
LtOrEqual(x, t) == ~x.nan /\ x.v <= t
Lt(x, t) == ~x.nan /\ x.v < t

\* df[df[col] < temp].shape[0]
DaysBelow(col, t) ==
    LET below(x) == Lt(x, t) IN Len(SelectSeq(col, below))

MinTemp(value) == value[1]
MaxTempNoPlusOne(value) == value[2]
MaxTemp(value) == value[2] + 1

\* range(a, b)
Range(a, b) == IF b > a THEN [k \in 1..(b - a) |-> a + k - 1] ELSE <<>>

Pow10(k) == IF k = 3 THEN 1000 ELSE IF k = 2 THEN 100 ELSE IF k = 1 THEN 10 ELSE 1
Scale == Pow10(Decimals)

\* Series.round(3) of the double num/den, in thousandths: numpy multiplies
\* the double by 1000.0 and takes rint (nearest, a tie to even).  The product
\* differs from the exact quotient only where that is a tie, m/2 with m odd:
\* for m in 1001..1023 the product falls just below the tie and rint gives
\* the lower neighbour; every other tie up to 1.0 is hit exactly.
Trunc3(num, den) == (Scale * num) \div den
Round3(num, den) ==
    LET q == (Scale * num) \div den
        r == (Scale * num) % den
    IN  IF 2 * r < den THEN q
        ELSE IF 2 * r > den THEN q + 1
        ELSE IF 1001 <= 2 * q + 1 /\ 2 * q + 1 <= 1023 THEN q
        ELSE IF q % 2 = 0 THEN q ELSE q + 1

RemoveAt(s, i) == SubSeq(s, 1, i - 1) \o SubSeq(s, i + 1, Len(s))

\* new_df.sort_values(by="Temp", ascending=False)
KeepOrder(rows) == rows
RECURSIVE SortValuesDesc(_)
SortValuesDesc(rows) ==
    IF rows = <<>> THEN <<>>
    ELSE LET i == CHOOSE i \in 1..Len(rows) :
                    \A j \in 1..Len(rows) :
                        \/ rows[j].Temp < rows[i].Temp
                        \/ rows[j].Temp = rows[i].Temp /\ i <= j
         IN  <<rows[i]>> \o SortValuesDesc(RemoveAt(rows, i))

\* new_df["Proportion Below"].round(3)
RoundColumn(rows) ==
    [k \in 1..Len(rows) |->
        [Temp |-> rows[k].Temp,
         DaysBelow |-> rows[k].DaysBelow,
         ProportionBelow |-> Round3(rows[k].Proportion[1], rows[k].Proportion[2])]]

NoOutput == [status |-> "none", error |-> "", rows |-> <<>>]
\* a table that stopped on the req or the exception of a calculation
Stopped(c) == [status |-> c.status, error |-> c.error, rows |-> <<>>]
Raised(e) == [status |-> "error", error |-> e, rows |-> <<>>]

\* the body shared by table_weather (col = df["y"]) and table_forecast
\* (col = df["yhat_lower"]): the loop, the frame, the sort, the rounding
Profile(col, value) ==
    LET temps == Range(MinTemp(value), MaxTemp(value))
        n == Len(col)
        data == [k \in 1..Len(temps) |->
                    [Temp |-> temps[k],
                     DaysBelow |-> DaysBelow(col, temps[k]),
                     Proportion |-> <<DaysBelow(col, temps[k]), n>>]]
    IN  IF Len(temps) > 0 /\ n = 0
        THEN Raised("ZeroDivisionError")
        ELSE [status |-> "ok", error |-> "",
              rows |-> RoundColumn(SortValuesDesc(data))]

(***************************************************************************)
(* The sidebar: the sliders as the UI declares them and as the two effects *)
(* rewrite them when the unit changes                                      *)
(***************************************************************************)
Slider(value, min, max) == [value |-> value, min |-> min, max |-> max]

UiTemp == Slider(5, -15, 50)
UiTempRange == Slider(<<0, 15>>, -25, 60)

\* update_temp: the arguments of ui.update_slider("temp", ...)
TempForSwapped(u) ==
    IF u = "fahrenheit" THEN Slider(-15, -25, 10) ELSE Slider(5, -15, 50)
TempFor(u) ==
    IF u = "celsius" THEN Slider(-15, -25, 10) ELSE Slider(5, -15, 50)

\* update_temp_range: the arguments of ui.update_slider("temp_range", ...)
TempRangeFor(u) ==
    IF u = "celsius" THEN Slider(<<-20, -10>>, -30, 15)
    ELSE Slider(<<0, 15>>, -25, 60)

(***************************************************************************)
(* The cached calculations.  A calculation caches its value, or the        *)
(* SilentException of a req ("halted"), or the exception raised ("error"). *)
(***************************************************************************)
NoResponse == [status |-> "none", error |-> "", daily |-> <<>>]
NoWeather == [status |-> "none", error |-> "", ds_tz |-> TRUE, y |-> <<>>,
              has_cold |-> FALSE, cold |-> <<>>]
NoForecast == [status |-> "none", error |-> "", growth |-> "", yhat_lower |-> <<>>]
NoText == [status |-> "none", error |-> ""]
NoPlot == [status |-> "none", error |-> "", unit |-> "", yintercept |-> 0]
StoppedPlot(c) == [status |-> c.status, error |-> c.error, unit |-> "", yintercept |-> 0]

\* what openmeteo.weather_api can do when it is called: answer with a
\* series, or raise
Answers ==
    {[status |-> "ok", error |-> "", daily |-> h] : h \in Histories}
        \cup {[status |-> "error", error |-> "ApiError", daily |-> <<>>]}

\* the outcomes of the archive call when make_weather_request runs; the call
\* is not made while the response is cached, for no city, or for a date missing
Archive ==
    IF response.status # "none" \/ city = "" \/ dates = "partial"
    THEN {NoResponse} ELSE Answers

\* what Prophet can predict when forecast runs: nothing is fitted while the
\* forecast is cached
Prophet(periods) ==
    IF fc.status # "none" THEN {fc.yhat_lower} ELSE Predictions(periods)

\* make_weather_request, s the outcome of the archive call: the cached
\* response; or get_input_lat_lon's req(len(input.city()) > 0) halts; or
\* dates[0].strftime raises on a missing date; or the call is made
MakeWeatherRequest(s) ==
    IF response.status # "none" THEN response
    ELSE IF city = "" THEN [status |-> "halted", error |-> "", daily |-> <<>>]
    ELSE IF dates = "partial"
         THEN [status |-> "error", error |-> "AttributeError", daily |-> <<>>]
    ELSE s

\* the frame get_weather builds: columns ds (UTC) and y
Frame(daily) == [status |-> "ok", error |-> "", ds_tz |-> TRUE, y |-> daily,
                 has_cold |-> FALSE, cold |-> <<>>]

\* get_weather: the cached frame itself (not a copy), or a new one, or the
\* req or exception of the request
GetWeather(r) ==
    IF weather.status # "none" THEN weather
    ELSE IF r.status = "ok" THEN Frame(r.daily)
    ELSE [NoWeather EXCEPT !.status = r.status, !.error = r.error]

\* req(df.shape[0] > 364)
ReqHistoryOffByOne(df) == Len(df.y) >= ReqRows
ReqHistory(df) == Len(df.y) > ReqRows

\* periods = input.forecast_years() * 365
Periods(years) == years.v * DaysPerYear

\* forecast, called on what get_weather gave; p is Prophet's prediction.
\* Gives the frame as the call leaves it and the value cached.
ForecastCalc(df, p) ==
    IF fc.status # "none" THEN [weather |-> df, fc |-> fc]
    ELSE IF df.status # "ok"
    THEN [weather |-> df,
          fc |-> [NoForecast EXCEPT !.status = df.status, !.error = df.error]]
    ELSE [weather |-> [df EXCEPT !.ds_tz = FALSE],
          fc |-> IF ~ReqHistory(df)
                 THEN [NoForecast EXCEPT !.status = "halted"]
                 ELSE IF forecast_years.none
                 THEN [NoForecast EXCEPT !.status = "error", !.error = "TypeError"]
                 ELSE [status |-> "ok", error |-> "", growth |-> forecast_trend,
                       yhat_lower |-> p]]

Unit == IF units = "celsius" THEN "C" ELSE "F"

(***************************************************************************)
(* What a cached calculation or an output depends on is what it read       *)
(* before it stopped.                                                      *)
(***************************************************************************)
\* make_weather_request got past get_input_lat_lon and read input.dates()
RequestReadDates == response.status \in {"ok", "error"}
\* ... and got past strftime and read input.units()
RequestReadUnits ==
    \/ response.status = "ok"
    \/ response.status = "error" /\ response.error = "ApiError"
\* forecast got past its req and read forecast_trend (and forecast_years)
ForecastReadInputs ==
    \/ fc.status = "ok"
    \/ fc.status = "error" /\ fc.error = "TypeError"
\* a table got past its calculation and read input.temp_range()
ReadRange(out) ==
    \/ out.status = "ok"
    \/ out.status = "error" /\ out.error = "ZeroDivisionError"

Drop(out, none, cond) == IF cond THEN none ELSE out

\* the response is invalidated, and with it every calculation and output
DropRequest ==
    /\ response' = NoResponse
    /\ weather' = NoWeather
    /\ fc' = NoForecast
    /\ out_coordinates' = NoText
    /\ out_map' = NoText
    /\ out_plot_weather' = NoPlot
    /\ out_table_weather' = NoOutput
    /\ out_plot_forecast' = NoPlot
    /\ out_table_forecast' = NoOutput

\* the forecast is invalidated, and with it the two outputs that called it
DropForecast ==
    /\ fc' = NoForecast
    /\ out_plot_forecast' = NoPlot
    /\ out_table_forecast' = NoOutput
    /\ UNCHANGED <<response, weather, out_coordinates, out_map,
                   out_plot_weather, out_table_weather>>

\* input.temp() changes: plot_weather reads it first of all, plot_forecast
\* after forecast()
DropTempReaders ==
    /\ out_plot_weather' = NoPlot
    /\ out_plot_forecast' =
           Drop(out_plot_forecast, NoPlot, out_plot_forecast.status = "ok")
    /\ UNCHANGED <<caches, out_coordinates, out_map,
                   out_table_weather, out_table_forecast>>

\* input.temp_range() changes: both tables read it after their calculation
DropRangeReaders ==
    /\ out_table_weather' =
           Drop(out_table_weather, NoOutput, ReadRange(out_table_weather))
    /\ out_table_forecast' =
           Drop(out_table_forecast, NoOutput, ReadRange(out_table_forecast))
    /\ UNCHANGED <<caches, out_coordinates, out_map,
                   out_plot_weather, out_plot_forecast>>

\* outputs on a hidden panel are suspended; the sidebar is always shown
Shown(name) ==
    \/ name \in {"coordinates", "map"}
    \/ name \in {"plot_weather", "table_weather"} /\ tab = "Historical"
    \/ name \in {"plot_forecast", "table_forecast"} /\ tab = "Forecast"

\* a flush is under way: something invalidated is still to run.  The session
\* takes the next message from the browser when the flush is over.
Flushing ==
    \/ pending # {}
    \/ out_coordinates.status = "none"
    \/ out_map.status = "none"
    \/ Shown("plot_weather") /\ out_plot_weather.status = "none"
    \/ Shown("table_weather") /\ out_table_weather.status = "none"
    \/ Shown("plot_forecast") /\ out_plot_forecast.status = "none"
    \/ Shown("table_forecast") /\ out_table_forecast.status = "none"

\* the user changes an input: the session is between two flushes
UserEvent ==
    /\ ~Flushing
    /\ events < MaxEvents
    /\ events' = events + 1

(***************************************************************************)
(* State after construction: a new session, nothing rendered yet, both     *)
(* effects due on the first flush                                          *)
(***************************************************************************)
Init ==
    /\ city = "Urbana, Illinois"
    /\ dates = "complete"
    /\ units = "fahrenheit"
    /\ temp = UiTemp
    /\ temp_range = UiTempRange
    /\ forecast_years = Years(1)
    /\ forecast_trend = "flat"
    /\ roll_week = FALSE
    /\ roll_month = FALSE
    /\ tab = "Historical"
    /\ events = 0
    /\ pending = {"update_temp", "update_temp_range"}
    /\ msgs = <<>>
    /\ response = NoResponse
    /\ weather = NoWeather
    /\ fc = NoForecast
    /\ out_coordinates = NoText
    /\ out_map = NoText
    /\ out_plot_weather = NoPlot
    /\ out_table_weather = NoOutput
    /\ out_plot_forecast = NoPlot
    /\ out_table_forecast = NoOutput

(***************************************************************************)
(* Input changes: each invalidates what read the input                     *)
(***************************************************************************)
SetCity(c) ==
    /\ UserEvent
    /\ c # city
    /\ city' = c
    /\ DropRequest
    /\ UNCHANGED <<dates, units, temp, temp_range, forecast_years,
                   forecast_trend, roll_week, roll_month, tab, pending, msgs>>

\* another pair of dates, or a date cleared
SetDates(d) ==
    /\ UserEvent
    /\ d # dates \/ d = "complete"
    /\ dates' = d
    /\ IF RequestReadDates THEN DropRequest ELSE UNCHANGED <<caches, outputs>>
    /\ UNCHANGED <<city, units, temp, temp_range, forecast_years,
                   forecast_trend, roll_week, roll_month, tab, pending, msgs>>

\* both effects read input.units(); so does the request once it has its
\* dates, and plot_forecast before anything else
SetUnits(u) ==
    /\ UserEvent
    /\ u # units
    /\ Len(msgs) + 2 <= MaxInFlight
    /\ units' = u
    /\ pending' = {"update_temp", "update_temp_range"}
    /\ IF RequestReadUnits THEN DropRequest
       ELSE /\ out_plot_forecast' = NoPlot
            /\ UNCHANGED <<caches, out_coordinates, out_map, out_plot_weather,
                           out_table_weather, out_table_forecast>>
    /\ UNCHANGED <<city, dates, temp, temp_range, forecast_years,
                   forecast_trend, roll_week, roll_month, tab, msgs>>

\* the user moves the plot slider
SetTemp(v) ==
    /\ UserEvent
    /\ v # temp.value
    /\ temp.min <= v /\ v <= temp.max
    /\ temp' = [temp EXCEPT !.value = v]
    /\ DropTempReaders
    /\ UNCHANGED <<city, dates, units, temp_range, forecast_years,
                   forecast_trend, roll_week, roll_month, tab, pending, msgs>>

\* the user moves the table slider
SetTempRange(v) ==
    /\ UserEvent
    /\ v # temp_range.value
    /\ temp_range.min <= v[1] /\ v[1] <= v[2] /\ v[2] <= temp_range.max
    /\ temp_range' = [temp_range EXCEPT !.value = v]
    /\ DropRangeReaders
    /\ UNCHANGED <<city, dates, units, temp, forecast_years,
                   forecast_trend, roll_week, roll_month, tab, pending, msgs>>

SetForecastYears(k) ==
    /\ UserEvent
    /\ k # forecast_years
    /\ forecast_years' = k
    /\ IF ForecastReadInputs THEN DropForecast ELSE UNCHANGED <<caches, outputs>>
    /\ UNCHANGED <<city, dates, units, temp, temp_range,
                   forecast_trend, roll_week, roll_month, tab, pending, msgs>>

SetForecastTrend(g) ==
    /\ UserEvent
    /\ g # forecast_trend
    /\ forecast_trend' = g
    /\ IF ForecastReadInputs THEN DropForecast ELSE UNCHANGED <<caches, outputs>>
    /\ UNCHANGED <<city, dates, units, temp, temp_range, forecast_years,
                   roll_week, roll_month, tab, pending, msgs>>

\* plot_weather reads the two checkboxes once it has the frame
SetRollWeek(b) ==
    /\ UserEvent
    /\ b # roll_week
    /\ roll_week' = b
    /\ out_plot_weather' =
           Drop(out_plot_weather, NoPlot, out_plot_weather.status = "ok")
    /\ UNCHANGED <<city, dates, units, temp, temp_range, forecast_years,
                   forecast_trend, roll_month, tab, pending, msgs, caches,
                   out_coordinates, out_map, out_table_weather,
                   out_plot_forecast, out_table_forecast>>

SetRollMonth(b) ==
    /\ UserEvent
    /\ b # roll_month
    /\ roll_month' = b
    /\ out_plot_weather' =
           Drop(out_plot_weather, NoPlot, out_plot_weather.status = "ok")
    /\ UNCHANGED <<city, dates, units, temp, temp_range, forecast_years,
                   forecast_trend, roll_week, tab, pending, msgs, caches,
                   out_coordinates, out_map, out_table_weather,
                   out_plot_forecast, out_table_forecast>>

\* another panel is shown: its invalidated outputs resume
SetTab(t) ==
    /\ UserEvent
    /\ t # tab
    /\ tab' = t
    /\ UNCHANGED <<city, dates, units, temp, temp_range, forecast_years,
                   forecast_trend, roll_week, roll_month, pending, msgs,
                   caches, outputs>>

\* the browser applies the oldest ui.update_slider message and reports the
\* slider's value
ApplyUpdate ==
    /\ ~Flushing
    /\ msgs # <<>>
    /\ msgs' = Tail(msgs)
    /\ IF Head(msgs).id = "temp"
       THEN /\ temp' = Head(msgs).slider
            /\ IF temp'.value # temp.value THEN DropTempReaders
               ELSE UNCHANGED <<caches, outputs>>
            /\ UNCHANGED temp_range
       ELSE /\ temp_range' = Head(msgs).slider
            /\ IF temp_range'.value # temp_range.value THEN DropRangeReaders
               ELSE UNCHANGED <<caches, outputs>>
            /\ UNCHANGED temp
    /\ UNCHANGED <<city, dates, units, forecast_years, forecast_trend,
                   roll_week, roll_month, tab, events, pending>>

(***************************************************************************)
(* The effects: each queues a message for the browser; the input changes   *)
(* when the browser has applied it (ApplyUpdate)                           *)
(***************************************************************************)
UpdateTemp ==
    /\ "update_temp" \in pending
    /\ pending' = pending \ {"update_temp"}
    /\ msgs' = Append(msgs, [id |-> "temp", slider |-> TempFor(units)])
    /\ UNCHANGED <<inputs, caches, outputs>>

UpdateTempRange ==
    /\ "update_temp_range" \in pending
    /\ pending' = pending \ {"update_temp_range"}
    /\ msgs' = Append(msgs, [id |-> "temp_range", slider |-> TempRangeFor(units)])
    /\ UNCHANGED <<inputs, caches, outputs>>

(***************************************************************************)
(* The renders: each runs when its output is invalidated and shown; s is   *)
(* the outcome of the archive call if it is made, p what Prophet predicts  *)
(* if the model is fitted                                                  *)
(***************************************************************************)
\* coordinates and map read get_lat_lng, which reads the response
Coordinates ==
    /\ out_coordinates.status = "none"
    /\ \E s \in Archive :
        LET r == MakeWeatherRequest(s)
        IN  /\ response' = r
            /\ out_coordinates' = [status |-> r.status, error |-> r.error]
    /\ UNCHANGED <<inputs, pending, msgs, weather, fc, out_map, out_plot_weather,
                   out_table_weather, out_plot_forecast, out_table_forecast>>

MapWidget ==
    /\ out_map.status = "none"
    /\ \E s \in Archive :
        LET r == MakeWeatherRequest(s)
        IN  /\ response' = r
            /\ out_map' = [status |-> r.status, error |-> r.error]
    /\ UNCHANGED <<inputs, pending, msgs, weather, fc, out_coordinates,
                   out_plot_weather, out_table_weather, out_plot_forecast,
                   out_table_forecast>>

PlotWeather ==
    /\ Shown("plot_weather")
    /\ out_plot_weather.status = "none"
    /\ \E s \in Archive :
        LET r == MakeWeatherRequest(s)
            df == GetWeather(r)
            cold == [i \in 1..Len(df.y) |-> IF Lt(df.y[i], temp.value) THEN 1 ELSE 0]
        IN  /\ response' = r
            /\ IF df.status = "ok"
               THEN /\ weather' = [df EXCEPT !.has_cold = TRUE, !.cold = cold]
                    /\ out_plot_weather' =
                           [status |-> "ok", error |-> "", unit |-> Unit,
                            yintercept |-> temp.value]
               ELSE /\ weather' = df
                    /\ out_plot_weather' = StoppedPlot(df)
    /\ UNCHANGED <<inputs, pending, msgs, fc, out_coordinates, out_map,
                   out_table_weather, out_plot_forecast, out_table_forecast>>

TableWeather ==
    /\ Shown("table_weather")
    /\ out_table_weather.status = "none"
    /\ \E s \in Archive :
        LET r == MakeWeatherRequest(s)
            df == GetWeather(r)
        IN  /\ response' = r
            /\ weather' = df
            /\ out_table_weather' =
                   IF df.status = "ok" THEN Profile(df.y, temp_range.value)
                   ELSE Stopped(df)
    /\ UNCHANGED <<inputs, pending, msgs, fc, out_coordinates, out_map,
                   out_plot_weather, out_plot_forecast, out_table_forecast>>

PlotForecast ==
    /\ Shown("plot_forecast")
    /\ out_plot_forecast.status = "none"
    /\ \E s \in Archive, p \in Prophet(Periods(forecast_years)) :
        LET r == MakeWeatherRequest(s)
            f == ForecastCalc(GetWeather(r), p)
        IN  /\ response' = r
            /\ weather' = f.weather
            /\ fc' = f.fc
            /\ out_plot_forecast' =
                   IF f.fc.status = "ok"
                   THEN [status |-> "ok", error |-> "", unit |-> Unit,
                         yintercept |-> temp.value]
                   ELSE StoppedPlot(f.fc)
    /\ UNCHANGED <<inputs, pending, msgs, out_coordinates, out_map,
                   out_plot_weather, out_table_weather, out_table_forecast>>

TableForecast ==
    /\ Shown("table_forecast")
    /\ out_table_forecast.status = "none"
    /\ \E s \in Archive, p \in Prophet(Periods(forecast_years)) :
        LET r == MakeWeatherRequest(s)
            f == ForecastCalc(GetWeather(r), p)
        IN  /\ response' = r
            /\ weather' = f.weather
            /\ fc' = f.fc
            /\ out_table_forecast' =
                   IF f.fc.status = "ok"
                   THEN Profile(f.fc.yhat_lower, temp_range.value)
                   ELSE Stopped(f.fc)
    /\ UNCHANGED <<inputs, pending, msgs, out_coordinates, out_map,
                   out_plot_weather, out_table_weather, out_plot_forecast>>

Next ==
    \/ \E c \in Cities : SetCity(c)
    \/ \E d \in DateChoices : SetDates(d)
    \/ \E u \in {"fahrenheit", "celsius"} : SetUnits(u)
    \/ \E v \in TempChoices : SetTemp(v)
    \/ \E v \in RangeChoices : SetTempRange(v)
    \/ \E k \in YearChoices : SetForecastYears(k)
    \/ \E g \in {"flat", "linear"} : SetForecastTrend(g)
    \/ \E b \in BOOLEAN : SetRollWeek(b)
    \/ \E b \in BOOLEAN : SetRollMonth(b)
    \/ \E t \in Tabs : SetTab(t)
    \/ ApplyUpdate
    \/ UpdateTemp
    \/ UpdateTempRange
    \/ Coordinates
    \/ MapWidget
    \/ PlotWeather
    \/ TableWeather
    \/ PlotForecast
    \/ TableForecast

Spec == Init /\ [][Next]_vars

(***************************************************************************)
(* The threshold sweep alone: a series and a pair (low, high) drawn from   *)
(* bounded sets, already in the caches the two tables read, one of the two *)
(* panels shown, and its table computed                                    *)
(***************************************************************************)
\* 1 of 16 and 203 of 400 observations below 10: quotients that are ties
TieSeries ==
    {[i \in 1..16 |-> Num(IF i = 1 THEN 9 ELSE 11)],
     [i \in 1..400 |-> Num(IF i <= 203 THEN 9 ELSE 11)]}

InitProfile ==
    /\ city = "Urbana, Illinois"
    /\ dates = "complete"
    /\ units = "fahrenheit"
    /\ temp = UiTemp
    /\ \E low \in Thresholds, high \in Thresholds :
          temp_range = Slider(<<low, high>>, UiTempRange.min, UiTempRange.max)
    /\ forecast_years = Years(1)
    /\ forecast_trend = "flat"
    /\ roll_week = FALSE
    /\ roll_month = FALSE
    /\ tab \in {"Historical", "Forecast"}
    /\ events = 0
    /\ pending = {}
    /\ msgs = <<>>
    /\ \E obs \in ShortSeries \cup TieSeries :
          /\ response = [status |-> "ok", error |-> "", daily |-> obs]
          /\ weather = Frame(obs)
          /\ fc = [status |-> "ok", error |-> "", growth |-> "flat",
                   yhat_lower |-> obs]
    /\ out_coordinates = [status |-> "ok", error |-> ""]
    /\ out_map = [status |-> "ok", error |-> ""]
    /\ out_plot_weather = NoPlot
    /\ out_table_weather = NoOutput
    /\ out_plot_forecast = NoPlot
    /\ out_table_forecast = NoOutput

NextProfile == TableWeather \/ TableForecast

SpecProfile == InitProfile /\ [][NextProfile]_vars

(***************************************************************************)
(* Properties                                                              *)
(***************************************************************************)
Low == temp_range.value[1]
High == temp_range.value[2]

\* the tables rendered so far, each with the column it was computed from
Tables ==
    {t \in {[out |-> out_table_weather, col |-> weather.y],
            [out |-> out_table_forecast, col |-> fc.yhat_lower]} :
        \/ t.out.status = "ok"
        \/ t.out.status = "error" /\ t.out.error = "ZeroDivisionError"}

Profiles == {t \in Tables : t.out.status = "ok"}

RowsOf(t) == {t.out.rows[k] : k \in 1..Len(t.out.rows)}
Abs(x) == IF x < 0 THEN -x ELSE x
Present(col) == {i \in 1..Len(col) : ~col[i].nan}
Below(col, t) == {i \in Present(col) : col[i].v < t}

\* C1: a computed profile has exactly one row per integer t with
\* low <= t <= high: high - low + 1 rows when low <= high, and no row, with
\* no error raised, when low > high.
C1_RowCount ==
    \A t \in Tables :
        /\ Low > High => t.out.status = "ok" /\ t.out.rows = <<>>
        /\ t.out.status = "ok" =>
              /\ Len(t.out.rows) = (IF Low <= High THEN High - Low + 1 ELSE 0)
              /\ \A k \in 1..Len(t.out.rows) : t.out.rows[k].Temp \in Low..High
              /\ \A v \in Low..High :
                    Cardinality({k \in 1..Len(t.out.rows) : t.out.rows[k].Temp = v}) = 1

C1_Witness ==
    /\ Low < High
    /\ Len(weather.y) = MaxLen
    /\ out_table_weather.status = "ok"
    /\ Len(out_table_weather.rows) = High - Low + 1

\* C2: a profile of more than one row is in strictly descending threshold
\* order, high first and low last, whatever the order of the observations.
C2_Descending ==
    \A t \in Profiles :
        LET rows == t.out.rows IN
        Len(rows) > 1 =>
            /\ rows[1].Temp = High
            /\ rows[Len(rows)].Temp = Low
            /\ \A k \in 1..(Len(rows) - 1) : rows[k + 1].Temp < rows[k].Temp

C2_Witness ==
    /\ out_table_weather.status = "ok"
    /\ Len(out_table_weather.rows) = 3
    /\ weather.y = <<Num(11), Num(9), Num(10)>>
    /\ out_table_weather.rows[1].Temp = 11

\* C3: count_below of the row for threshold t is the number of observations
\* strictly less than t; an observation equal to t is not counted.
C3_StrictlyBelow ==
    \A t \in Profiles : \A r \in RowsOf(t) :
        r.DaysBelow = Cardinality(Below(t.col, r.Temp))

C3_Witness ==
    /\ out_table_weather.status = "ok"
    /\ weather.y = <<Num(10), Num(10), Num(10)>>
    /\ \E r \in RowsOf([out |-> out_table_weather]) : r.Temp = 10 /\ r.DaysBelow = 0
    /\ \E r \in RowsOf([out |-> out_table_weather]) : r.Temp = 11 /\ r.DaysBelow = 3

\* C4: with no non-missing observation and a non-empty range the computation
\* signals EmptyInputError, and returns no row.
C4_EmptyInputError ==
    \A t \in Tables :
        Present(t.col) = {} /\ Low <= High =>
            t.out.status = "error" /\ t.out.error = "EmptyInputError"

\* C5: a NaN observation counts neither in count_below nor in the total that
\* proportion_below divides by (the proportion as displayed, to 3 places).
C5_NaNAbsent ==
    \A t \in Profiles : \A r \in RowsOf(t) :
        LET total == Cardinality(Present(t.col)) IN
        /\ r.DaysBelow = Cardinality(Below(t.col, r.Temp))
        /\ total > 0 =>
              2 * Abs(1000 * r.DaysBelow - r.ProportionBelow * total) <= total

\* C6 as stated: proportion_below is count_below / total exactly, unrounded
\* (proportion_below is held in thousandths).  Stated for the series with no
\* missing value, where the total is not in question.
C6_Exact ==
    \A t \in Profiles : \A r \in RowsOf(t) :
        Cardinality(Present(t.col)) = Len(t.col) =>
            r.ProportionBelow * Len(t.col) = 1000 * r.DaysBelow

\* C6 amended: proportion_below is count_below divided by the number of rows
\* of the series, rounded to 3 decimal places: a multiple of 0.001 within
\* 0.0005 of the quotient.
C6_Rounded ==
    \A t \in Profiles : \A r \in RowsOf(t) :
        2 * Abs(1000 * r.DaysBelow - r.ProportionBelow * Len(t.col)) <= Len(t.col)

C6_Witness ==
    /\ out_table_forecast.status = "ok"
    /\ Len(fc.yhat_lower) = 3
    /\ \E r \in RowsOf([out |-> out_table_forecast]) :
          r.DaysBelow = 2 /\ r.ProportionBelow = 667

\* C7: count_below does not decrease as the threshold increases.
C7_Monotone ==
    \A t \in Profiles : \A r1, r2 \in RowsOf(t) :
        r1.Temp < r2.Temp => r1.DaysBelow <= r2.DaysBelow

C7_Witness ==
    /\ out_table_weather.status = "ok"
    /\ \E r1, r2 \in RowsOf([out |-> out_table_weather]) :
          r1.Temp < r2.Temp /\ r1.DaysBelow < r2.DaysBelow

\* C8: the series the archive supplied is unchanged by the server's
\* computations: the cached frame still has the columns ds and y it was built
\* with, and nothing else.
C8_InputUnchanged ==
    weather.status = "ok" => weather = Frame(response.daily)

Consistent(slider) == slider.min <= slider.value /\ slider.value <= slider.max
ConsistentRange(slider) ==
    /\ slider.min <= slider.value[1]
    /\ slider.value[1] <= slider.value[2]
    /\ slider.value[2] <= slider.max

\* the two sliders, and what the effects have written and is still in flight
SliderConsistent ==
    /\ Consistent(temp)
    /\ ConsistentRange(temp_range)
    /\ \A k \in 1..Len(msgs) :
          IF msgs[k].id = "temp" THEN Consistent(msgs[k].slider)
          ELSE ConsistentRange(msgs[k].slider)

Ran(effect) == effect \in pending /\ effect \notin pending'
Wrote(id, slider) == msgs' = Append(msgs, [id |-> id, slider |-> slider])

\* C9: the sliders, and the slider states the effects write, stay consistent
\* (value within [min, max], low <= high) through every unit switch; each
\* effect run under fahrenheit writes the defaults the UI starts with; and
\* when the last write in flight has reached its slider under fahrenheit,
\* that slider is at its default and both have their default bounds.
C9_Sliders ==
    /\ []SliderConsistent
    /\ [][/\ Ran("update_temp") /\ units = "fahrenheit" =>
                Wrote("temp", [value |-> 5, min |-> -15, max |-> 50])
          /\ Ran("update_temp_range") /\ units = "fahrenheit" =>
                Wrote("temp_range", [value |-> <<0, 15>>, min |-> -25, max |-> 60])
          /\ msgs # <<>> /\ msgs' = <<>> /\ units = "fahrenheit" =>
                /\ temp'.min = -15 /\ temp'.max = 50
                /\ temp_range'.min = -25 /\ temp_range'.max = 60
                /\ Head(msgs).id = "temp" => temp'.value = 5
                /\ Head(msgs).id = "temp_range" => temp_range'.value = <<0, 15>>]_vars

\* back in fahrenheit after celsius: the write of update_temp has restored
\* the plot slider, the write of update_temp_range is still on its way and
\* the table slider has its celsius bounds
C9_Witness ==
    /\ units = "fahrenheit"
    /\ pending = {}
    /\ temp = [value |-> 5, min |-> -15, max |-> 50]
    /\ temp_range = [value |-> <<-20, -10>>, min |-> -30, max |-> 15]
    /\ msgs = <<[id |-> "temp_range",
                 slider |-> [value |-> <<0, 15>>, min |-> -25, max |-> 60]]>>

\* C10: a forecast, its table and its plot exist only for a history of at
\* least 365 observations; with 364 or fewer forecast halts and its table
\* and plot show nothing, while table_weather, once it has run on that
\* history, has tabulated it.
C10_ForecastNeedsYear ==
    /\ (\/ fc.status = "ok"
        \/ out_plot_forecast.status = "ok"
        \/ out_table_forecast.status = "ok")
          => weather.status = "ok" /\ Len(weather.y) >= 365
    /\ weather.status = "ok" /\ Len(weather.y) <= 364 /\ fc.status # "none" =>
          /\ fc.status = "halted"
          /\ out_table_forecast.status \in {"none", "halted"}
          /\ out_plot_forecast.status \in {"none", "halted"}
    /\ weather.status = "ok" /\ Len(weather.y) > 0
            /\ out_table_weather.status # "none" =>
          /\ out_table_weather.status = "ok"
          /\ Len(out_table_weather.rows) = High - Low + 1

C10_Witness ==
    /\ weather.status = "ok" /\ Len(weather.y) = 364
    /\ fc.status = "halted"
    /\ out_table_forecast.status = "halted"
    /\ out_plot_forecast.status = "halted"
    /\ out_table_weather.status = "ok"
    /\ Len(out_table_weather.rows) = High - Low + 1

====
